---- MODULE Spec2Model ----
(***************************************************************************)
(* Model of logspout-cloudwatch's delivery side: CloudwatchUploader.Start  *)
(* and the AWS client methods it calls (getSequenceToken, groupExists,     *)
(* createGroup, createGroupRetentionPolicy, createStream), together with   *)
(* the CloudWatch Logs service those methods talk to.                      *)
(*                                                                         *)
(* The uploader is one goroutine.  Every remote call is one step of it;    *)
(* pc names the call it is about to make.  getSequenceToken calls itself   *)
(* in tail position (line 158-159), so the recursion is a jump back to     *)
(* its first call and needs no stack.                                      *)
(*                                                                         *)
(* The ingestion side, CloudwatchAdapter.Stream, is a second goroutine.    *)
(* It shares the map retentiondays with the uploader; its steps are cut    *)
(* where it touches that map and where it hands a message on.              *)
(***************************************************************************)
EXTENDS Integers, Sequences, FiniteSets, TLC

\* ------------------------------------------------------------------ bounds
\* Longest batch the batcher hands over.
MaxMsgs == 3
\* Number of sequence tokens the service issues (successful PutLogEvents).
MaxTok == 2
\* Length of the call history kept for one delivery attempt; calls made
\* after that are not recorded.
MaxCalls == 9
\* Number of messages the router delivers on logstream.
MaxLines == 2

\* ------------------------------------------------------------------ values
\* A nil *string / absent map entry value.
Nil == 0
\* Token recorded on a stream that was written before this process started.
PriorTok == MaxTok + 1

\* Names are sequences of name parts, so that "is a prefix of" is computed.
app == <<"app">>
appx == <<"app", "x">>
web == <<"web">>
web1 == <<"web", "-1">>

\* strings.HasPrefix as the service applies it to LogGroupNamePrefix and
\* LogStreamNamePrefix.
HasPrefix(s, p) == Len(p) <= Len(s) /\ SubSeq(s, 1, Len(p)) = p

Containers == {"c1", "c2", "c3"}
\* What the adapter rendered and cached for each container: c1 and c2 share
\* one destination, c3 has a stream whose name is a prefix of theirs.
groupnames == [c \in Containers |-> app]
streamnames == [c \in Containers |-> IF c = "c3" THEN web ELSE web1]

Dest(c) == <<groupnames[c], streamnames[c]>>
Dests == {Dest(c) : c \in Containers}

\* time.Time of the i-th message, in nanoseconds.
TimeOf(i) == i * 1500000

\* The CloudwatchMessage the adapter sends for container c as i-th message.
CloudwatchMessage(c, i) ==
    [Message |-> i, Group |-> groupnames[c], Stream |-> streamnames[c],
     Time |-> TimeOf(i), Container |-> c]

\* Batches: all messages of a batch have one destination; they may come
\* from different containers that share it.
SameDest(cs) == \A i \in DOMAIN cs : Dest(cs[i]) = Dest(cs[1])
ContainerSeqs ==
    { q \in UNION {[1..k -> Containers] : k \in 0..MaxMsgs} : SameDest(q) }
BatchOf(cs) == [Msgs |-> [i \in DOMAIN cs |-> CloudwatchMessage(cs[i], i)]]
Batches == { BatchOf(cs) : cs \in ContainerSeqs }
EmptyBatch == [Msgs |-> <<>>]

\* map[k] = v on a Go map
MapPut(m, k, v) == [x \in DOMAIN m \cup {k} |-> IF x = k THEN v ELSE m[x]]
EmptyMap == [x \in {} |-> Nil]

VARIABLES
    pc,             \* where the uploader goroutine is
    batch,          \* the batch being delivered
    token,          \* Start's local: var token *string
    tokens,         \* u.tokens
    retentiondays,  \* u.adapter.retentiondays
    logGroups,      \* service: existing log groups
    logStreams,     \* service: <<group, stream>> -> uploadSequenceToken
    nextTok,        \* service: next sequence token to issue
    calls,          \* history: remote calls of the current delivery attempt
    outcome,        \* history: how the current attempt ended
    tokens0,        \* history: u.tokens when the attempt began
    lastResp,       \* history: dest -> NextSequenceToken of its last successful PutLogEvents
    appCached,      \* history: dest -> token cached by a successful PutLogEvents, until the next batch for dest ends
    adapter,        \* the Stream goroutine: its position, locals and caches
    batcher         \* messages handed to a.batcher.Input and not yet in a batch

vars == <<pc, batch, token, tokens, retentiondays, logGroups, logStreams,
          nextTok, calls, outcome, tokens0, lastResp, appCached, adapter, batcher>>

\* The ingestion side's variables.
ingest == <<adapter, batcher>>

msg == batch.Msgs[1]

Call(op, group, stream, arg, ok, resp) ==
    [op |-> op, group |-> group, stream |-> stream, arg |-> arg, ok |-> ok, resp |-> resp]

\* The history with one more call; it keeps the first MaxCalls calls.
Record(c) == IF Len(calls) < MaxCalls THEN Append(calls, c) ELSE calls

\* ---------------------------------------------------------------- service
\* Resources created during the current attempt: a Describe call issued
\* right after may not list them yet.
FreshGroups ==
    { calls[i].group : i \in { j \in DOMAIN calls : calls[j].op = "CreateLogGroup" /\ calls[j].ok } }
FreshStreams ==
    { calls[i].stream : i \in { j \in DOMAIN calls : calls[j].op = "CreateLogStream" /\ calls[j].ok } }

GroupMatches(prefix) == { g \in logGroups : HasPrefix(g, prefix) }
DescribeLogGroups(prefix) ==
    IF prefix = <<>> THEN {}   \* an empty LogGroupNamePrefix is rejected
    ELSE { GroupMatches(prefix) \ h : h \in SUBSET (GroupMatches(prefix) \cap FreshGroups) }

StreamMatches(group, prefix) ==
    { s \in {k[2] : k \in {x \in DOMAIN logStreams : x[1] = group}} : HasPrefix(s, prefix) }
LogStream(group, s) ==
    [LogStreamName |-> s, UploadSequenceToken |-> logStreams[<<group, s>>]]
DescribeLogStreams(group, prefix) ==
    IF prefix = <<>> THEN {}   \* an empty LogStreamNamePrefix is rejected
    ELSE { { LogStream(group, s) : s \in StreamMatches(group, prefix) \ h } :
             h \in SUBSET (StreamMatches(group, prefix) \cap FreshStreams) }

CreateLogGroupOk(group) == group \notin logGroups
CreateLogStreamOk(group, stream) ==
    group \in logGroups /\ <<group, stream>> \notin DOMAIN logStreams
\* PutRetentionPolicy accepts a positive number of days only.
PutRetentionPolicyOk(days) == days >= 1
PutLogEventsOk(group, stream, tok) ==
    /\ <<group, stream>> \in DOMAIN logStreams
    /\ logStreams[<<group, stream>>] = tok
    /\ nextTok <= MaxTok

\* ------------------------------------------------------------------- Init
NoMsg == [Container |-> "", Data |-> 0]

\* The adapter as NewCloudwatchAdapter builds it, waiting on logstream.
IdleAdapter ==
    [pc |-> "recv", m |-> NoMsg, lines |-> 0,
     groupName |-> <<>>, streamName |-> <<>>,
     retentionDays |-> <<>>, retentionDaysInt |-> 0,
     groupnames |-> EmptyMap, streamnames |-> EmptyMap,
     inspections |-> [c \in Containers |-> 0]]

Init ==
    /\ pc = "recv"
    /\ batch = EmptyBatch
    /\ token = Nil
    /\ tokens = EmptyMap
    /\ retentiondays \in {EmptyMap, [g \in {app} |-> 7]}
    /\ \E r \in { <<{}, EmptyMap>>,
                  <<{appx}, EmptyMap>>,
                  <<{app}, EmptyMap>>,
                  <<{app}, [k \in {<<app, web1>>} |-> PriorTok]>>,
                  <<{app, appx}, [k \in {<<app, web>>, <<app, web1>>} |->
                                     IF k[2] = web1 THEN PriorTok ELSE Nil]>> } :
          logGroups = r[1] /\ logStreams = r[2]
    /\ nextTok = 1
    /\ calls = <<>>
    /\ outcome = "none"
    /\ tokens0 = EmptyMap
    /\ lastResp = EmptyMap
    /\ appCached = EmptyMap
    /\ adapter = [IdleAdapter EXCEPT !.groupnames = groupnames,
                                     !.streamnames = streamnames]
    /\ batcher = <<>>

\* -------------------------------------------------------------- uploader
\* A loop that takes the next batch while its PutLogEvents is in flight.
AtLoopHead_Overlapping == pc \in {"recv", "PutLogEvents"}

\* Destination of the batch being delivered: group and stream of Msgs[0].
batchDest == <<msg.Group, msg.Stream>>

MapDel(m, k) == [x \in DOMAIN m \ {k} |-> m[x]]

\* for batch := range u.Input; empty-batch check; cache lookup (lines 56-72).
\* An empty batch is logged and skipped.
\* Where the loop takes a batch: blocked in `range u.Input` only.
AtLoopHead == pc = "recv"

StartWith(b) ==
    /\ AtLoopHead
    /\ batch' = b
    /\ IF Len(b.Msgs) = 0
         THEN /\ pc' = "continue"
              /\ outcome' = "empty"
              /\ token' = Nil
         ELSE /\ outcome' = "none"
              /\ IF b.Msgs[1].Container \in DOMAIN tokens
                   THEN /\ token' = tokens[b.Msgs[1].Container]
                        /\ pc' = "PutLogEvents"
                   ELSE /\ token' = Nil
                        /\ pc' = "groupExists"
    /\ calls' = <<>>
    /\ tokens0' = tokens
    /\ UNCHANGED <<tokens, retentiondays, logGroups, logStreams, nextTok, lastResp, appCached>>

\* The loop head fed with any batch of already resolved containers.
Start ==
    /\ \E b \in Batches : StartWith(b)
    /\ UNCHANGED ingest

\* An error handler that leaves the loop (`return` for `continue`).
ResolveError_Return ==
    /\ pc' = "returned"
    /\ outcome' = "fail"
    /\ appCached' = MapDel(appCached, batchDest)
    /\ UNCHANGED <<batch, token, tokens, retentiondays, nextTok, tokens0, lastResp>>

\* getSequenceToken returned an error: log it, `continue` (lines 74-77).
ResolveError ==
    /\ pc' = "continue"
    /\ outcome' = "fail"
    /\ appCached' = MapDel(appCached, batchDest)
    /\ UNCHANGED <<batch, token, tokens, retentiondays, nextTok, tokens0, lastResp>>

\* groupExists with a prefix test in place of the equality of line 173.
GroupExistsIn_Prefix(resp, group) == \E matchedGroup \in resp : HasPrefix(matchedGroup, group)

\* The loop of groupExists over resp.LogGroups (lines 172-177).
GroupExistsIn(resp, group) == \E matchedGroup \in resp : matchedGroup = group

\* groupExists (lines 164-178) and its use in getSequenceToken (124-128).
groupExists ==
    /\ pc = "groupExists"
    /\ \/ /\ calls' = Record(Call("DescribeLogGroups", msg.Group, <<>>, <<>>, FALSE, {}))
          /\ ResolveError
       \/ \E resp \in DescribeLogGroups(msg.Group) :
            /\ calls' = Record(Call("DescribeLogGroups", msg.Group, <<>>, <<>>, TRUE, resp))
            /\ pc' = IF GroupExistsIn(resp, msg.Group) THEN "DescribeLogStreams" ELSE "createGroup"
            /\ UNCHANGED <<batch, token, tokens, retentiondays, nextTok, outcome, tokens0, lastResp, appCached>>
    /\ UNCHANGED <<logGroups, logStreams, ingest>>

\* createGroup (lines 180-189) as called at line 129.
createGroup ==
    /\ pc = "createGroup"
    /\ \/ /\ calls' = Record(Call("CreateLogGroup", msg.Group, <<>>, <<>>, FALSE, {}))
          /\ ResolveError
          /\ UNCHANGED logGroups
       \/ /\ CreateLogGroupOk(msg.Group)
          /\ calls' = Record(Call("CreateLogGroup", msg.Group, <<>>, <<>>, TRUE, {}))
          /\ logGroups' = logGroups \cup {msg.Group}
          /\ pc' = "retentiondays"
          /\ UNCHANGED <<batch, token, tokens, retentiondays, nextTok, outcome, tokens0, lastResp, appCached>>
    /\ UNCHANGED <<logStreams, ingest>>

\* What getSequenceToken does with createGroupRetentionPolicy's result
\* (lines 135-138): an error is returned to the caller.
AfterRetentionPolicy(err) == IF err THEN "error" ELSE "DescribeLogStreams"

\* The read of u.adapter.retentiondays[group] (line 134) and, when the
\* group has an entry, createGroupRetentionPolicy (lines 191-201) with the
\* value read (line 135).
createGroupRetentionPolicy ==
    /\ pc = "retentiondays"
    /\ IF msg.Group \notin DOMAIN retentiondays
         THEN /\ pc' = "DescribeLogStreams"
              /\ UNCHANGED <<batch, token, tokens, retentiondays, nextTok, calls,
                             outcome, tokens0, lastResp, appCached>>
         ELSE \E err \in BOOLEAN :
               /\ ~err => PutRetentionPolicyOk(retentiondays[msg.Group])
               /\ calls' = Record(Call("PutRetentionPolicy", msg.Group, <<>>,
                                       retentiondays[msg.Group], ~err, {}))
               /\ IF AfterRetentionPolicy(err) = "error"
                    THEN ResolveError
                    ELSE /\ pc' = AfterRetentionPolicy(err)
                         /\ UNCHANGED <<batch, token, tokens, retentiondays, nextTok, outcome, tokens0, lastResp, appCached>>
    /\ UNCHANGED <<logGroups, logStreams, ingest>>

\* The stream count test of line 150 off by one.
TooManyStreams_OffByOne(resp) == Cardinality(resp) > 2

\* len(resp.LogStreams) > 1 (line 150)
TooManyStreams(resp) == Cardinality(resp) > 1

\* resp.LogStreams[0].UploadSequenceToken (line 161)
FirstToken(resp) == (CHOOSE r \in resp : TRUE).UploadSequenceToken

\* u.tokens after getSequenceToken returned awsToken (lines 78-82)
TokensAfterFetch(m, container, awsToken) ==
    IF awsToken # Nil THEN MapPut(m, container, awsToken) ELSE m

\* The DescribeLogStreams call of getSequenceToken and the three cases of
\* its answer (lines 141-161); on a single match the token is returned to
\* Start, which caches it when it is not nil (lines 78-82).
getSequenceToken ==
    /\ pc = "DescribeLogStreams"
    /\ \/ /\ calls' = Record(Call("DescribeLogStreams", msg.Group, msg.Stream, <<>>, FALSE, {}))
          /\ ResolveError
       \/ /\ msg.Group \in logGroups
          /\ \E resp \in DescribeLogStreams(msg.Group, msg.Stream) :
              /\ calls' = Record(Call("DescribeLogStreams", msg.Group, msg.Stream, <<>>, TRUE, resp))
              /\ IF TooManyStreams(resp)
                   THEN ResolveError
                   ELSE IF Cardinality(resp) = 0
                   THEN /\ pc' = "createStream"
                        /\ UNCHANGED <<batch, token, tokens, retentiondays, nextTok, outcome, tokens0, lastResp, appCached>>
                   ELSE /\ tokens' = TokensAfterFetch(tokens, msg.Container, FirstToken(resp))
                        /\ token' = FirstToken(resp)
                        /\ pc' = "PutLogEvents"
                        /\ UNCHANGED <<batch, retentiondays, nextTok, outcome, tokens0, lastResp, appCached>>
    /\ UNCHANGED <<logGroups, logStreams, ingest>>

\* createStream (lines 203-213), then getSequenceToken calls itself
\* (lines 154-160).
createStream ==
    /\ pc = "createStream"
    /\ \/ /\ calls' = Record(Call("CreateLogStream", msg.Group, msg.Stream, <<>>, FALSE, {}))
          /\ ResolveError
          /\ UNCHANGED logStreams
       \/ /\ CreateLogStreamOk(msg.Group, msg.Stream)
          /\ calls' = Record(Call("CreateLogStream", msg.Group, msg.Stream, <<>>, TRUE, {}))
          /\ logStreams' = MapPut(logStreams, <<msg.Group, msg.Stream>>, Nil)
          /\ pc' = "groupExists"
          /\ UNCHANGED <<batch, token, tokens, retentiondays, nextTok, outcome, tokens0, lastResp, appCached>>
    /\ UNCHANGED <<logGroups, ingest>>

\* msg.Time.UnixNano() / 1000000 (line 90)
Timestamp(time) == time \div 1000000

\* An event list built by prepending instead of appending (reversed).
LogEvents_Reversed(b) ==
    [i \in DOMAIN b.Msgs |->
        [Message |-> b.Msgs[Len(b.Msgs) + 1 - i].Message,
         Timestamp |-> Timestamp(b.Msgs[Len(b.Msgs) + 1 - i].Time)]]

\* The InputLogEvents built from the batch (lines 86-93).
LogEvents(b) ==
    [i \in DOMAIN b.Msgs |-> [Message |-> b.Msgs[i].Message, Timestamp |-> Timestamp(b.Msgs[i].Time)]]

\* A PutLogEvents error handler that evicts the batch's cache entry.
TokensAfterPutError_Evict(m, container) == MapDel(m, container)

\* u.tokens after a PutLogEvents error (lines 104-107): untouched.
TokensAfterPutError(m, container) == m

\* A success handler that forgets to store the next sequence token.
TokensAfterPut_Skip(m, container, next) == m

\* u.tokens after a successful PutLogEvents (lines 109-113).
TokensAfterPut(m, container, next) ==
    IF next # Nil THEN MapPut(m, container, next) ELSE m

\* PutLogEvents and the handling of its result (lines 85-113).
PutLogEvents ==
    /\ pc = "PutLogEvents"
    /\ LET arg == [SequenceToken |-> token, LogEvents |-> LogEvents(batch)] IN
       \/ /\ calls' = Record(Call("PutLogEvents", msg.Group, msg.Stream, arg, FALSE, Nil))
          /\ tokens' = TokensAfterPutError(tokens, msg.Container)
          /\ outcome' = "fail"
          /\ appCached' = MapDel(appCached, batchDest)
          /\ UNCHANGED <<logStreams, nextTok, lastResp>>
       \/ /\ PutLogEventsOk(msg.Group, msg.Stream, token)
          /\ \E next \in {nextTok, Nil} :
              /\ calls' = Record(Call("PutLogEvents", msg.Group, msg.Stream, arg, TRUE, next))
              /\ tokens' = TokensAfterPut(tokens, msg.Container, next)
              /\ lastResp' = MapPut(lastResp, batchDest, next)
              /\ appCached' = IF next # Nil THEN MapPut(appCached, batchDest, next)
                                            ELSE MapDel(appCached, batchDest)
          /\ logStreams' = [logStreams EXCEPT ![<<msg.Group, msg.Stream>>] = nextTok]
          /\ nextTok' = nextTok + 1
          /\ outcome' = "ok"
    /\ pc' = "continue"
    /\ UNCHANGED <<batch, token, retentiondays, logGroups, tokens0, ingest>>

\* Back to the head of the loop: wait for the next batch (line 56).
Continue ==
    /\ pc = "continue"
    /\ pc' = "recv"
    /\ batch' = EmptyBatch
    /\ token' = Nil
    /\ calls' = <<>>
    /\ outcome' = "none"
    /\ tokens0' = tokens
    /\ UNCHANGED <<tokens, retentiondays, logGroups, logStreams, nextTok, lastResp, appCached, ingest>>

\* Another client of the service deletes the stream this attempt has just
\* created and not yet written to (DeleteLogStream), so that the next
\* DescribeLogStreams truly finds nothing and CreateLogStream succeeds again.
DeleteLogStream ==
    /\ pc \in {"groupExists", "DescribeLogStreams"}
    /\ msg.Stream \in FreshStreams
    /\ batchDest \in DOMAIN logStreams
    /\ logStreams' = [k \in DOMAIN logStreams \ {batchDest} |-> logStreams[k]]
    /\ UNCHANGED <<pc, batch, token, tokens, retentiondays, logGroups, nextTok,
                   calls, outcome, tokens0, lastResp, appCached, ingest>>

\* --------------------------------------------------------------- adapter
\* Strings the adapter parses are sequences of characters.
DigitChars == <<"0", "1", "2", "3", "4", "5", "6", "7", "8", "9">>
IsDigit(ch) == \E i \in DOMAIN DigitChars : DigitChars[i] = ch
DigitVal(ch) == (CHOOSE i \in DOMAIN DigitChars : DigitChars[i] = ch) - 1

\* The digits of s after an optional sign.
Unsigned(s) == IF s # <<>> /\ s[1] \in {"+", "-"} THEN Tail(s) ELSE s

RECURSIVE ParseUint(_)
ParseUint(d) ==
    IF d = <<>> THEN 0
    ELSE 10 * ParseUint(SubSeq(d, 1, Len(d) - 1)) + DigitVal(d[Len(d)])

\* strconv.ParseInt(s, 10, 64): an optional sign and at least one decimal
\* digit; anything else is a syntax error.  (The values used here are far
\* from the 64-bit range.)
ParseInt(s) ==
    LET d == Unsigned(s)
        ok == d # <<>> /\ \A i \in DOMAIN d : IsDigit(d[i])
    IN  [err |-> ~ok,
         v   |-> IF ~ok THEN 0
                 ELSE IF s[1] = "-" THEN 0 - ParseUint(d) ELSE ParseUint(d)]

\* What LOGSPOUT_CLOUDWATCH_RETENTION_DAYS may render to: unset, a day
\* count, zero, and a value with a unit.
RetentionValues == { <<>>, <<"7">>, <<"0">>, <<"7", "d">> }

\* What LOGSPOUT_GROUP and LOGSPOUT_STREAM may render to for container c:
\* the names, or an empty string for either of them.
Rendered(c) ==
    { <<groupnames[c], streamnames[c]>>, <<(<<>>), streamnames[c]>>, <<groupnames[c], <<>>>> }

\* A test that takes every message as not yet resolved.
NeedsResolution_Always(groupName, streamName) == TRUE

\* (streamName == "") || (groupName == "") (line 79)
NeedsResolution(groupName, streamName) == streamName = <<>> \/ groupName = <<>>

\* for m := range logstream, and the look into the two name caches
\* (lines 69-79).
Stream ==
    /\ adapter.pc = "recv"
    /\ adapter.lines < MaxLines
    /\ \E c \in Containers :
        LET groupName == IF c \in DOMAIN adapter.groupnames THEN adapter.groupnames[c] ELSE <<>>
            streamName == IF c \in DOMAIN adapter.streamnames THEN adapter.streamnames[c] ELSE <<>>
        IN  adapter' = [adapter EXCEPT
                !.m = [Container |-> c, Data |-> adapter.lines + 1],
                !.lines = adapter.lines + 1,
                !.groupName = groupName,
                !.streamName = streamName,
                !.pc = IF NeedsResolution(groupName, streamName)
                         THEN "InspectContainer" ELSE "send"]
    /\ UNCHANGED <<pc, batch, token, tokens, retentiondays, logGroups, logStreams,
                   nextTok, calls, outcome, tokens0, lastResp, appCached, batcher>>

\* InspectContainer and, when it succeeds, the rendering and caching of
\* the names and the parsing of the retention days (lines 81-110, up to
\* the write of line 106).  An inspection error skips the message.
InspectContainer ==
    /\ adapter.pc = "InspectContainer"
    /\ LET c == adapter.m.Container
           seen == [adapter EXCEPT !.inspections[c] = @ + 1]
       IN  \/ adapter' = [seen EXCEPT !.pc = "recv", !.m = NoMsg]
           \/ \E r \in Rendered(c), retentionDays \in RetentionValues :
                 adapter' = [seen EXCEPT
                     !.groupName = r[1],
                     !.streamName = r[2],
                     !.groupnames = MapPut(@, c, r[1]),
                     !.streamnames = MapPut(@, c, r[2]),
                     !.retentionDays = retentionDays,
                     !.retentionDaysInt = ParseInt(retentionDays).v,
                     !.pc = IF retentionDays # <<>> /\ ~ParseInt(retentionDays).err
                              THEN "retentiondays" ELSE "send"]
    /\ UNCHANGED <<pc, batch, token, tokens, retentiondays, logGroups, logStreams,
                   nextTok, calls, outcome, tokens0, lastResp, appCached, batcher>>

\* a.retentiondays[groupName] = retentionDaysInt (line 106)
StoreRetentionDays ==
    /\ adapter.pc = "retentiondays"
    /\ retentiondays' = MapPut(retentiondays, adapter.groupName, adapter.retentionDaysInt)
    /\ adapter' = [adapter EXCEPT !.pc = "send"]
    /\ UNCHANGED <<pc, batch, token, tokens, logGroups, logStreams,
                   nextTok, calls, outcome, tokens0, lastResp, appCached, batcher>>

\* a.batcher.Input <- CloudwatchMessage{...} (lines 112-118); the message's
\* time is that of its arrival.
Send ==
    /\ adapter.pc = "send"
    /\ batcher' = Append(batcher,
                     [Message |-> adapter.m.Data,
                      Group |-> adapter.groupName,
                      Stream |-> adapter.streamName,
                      Time |-> TimeOf(adapter.m.Data),
                      Container |-> adapter.m.Container])
    /\ adapter' = [adapter EXCEPT !.pc = "recv", !.m = NoMsg,
                                  !.groupName = <<>>, !.streamName = <<>>,
                                  !.retentionDays = <<>>, !.retentionDaysInt = 0]
    /\ UNCHANGED <<pc, batch, token, tokens, retentiondays, logGroups, logStreams,
                   nextTok, calls, outcome, tokens0, lastResp, appCached>>

\* The adapter writes the map retentiondays (line 106) while the uploader
\* reads it (part_000 line 134), with nothing ordering the two.
ConcurrentMapAccess == adapter.pc = "retentiondays" /\ pc = "retentiondays"

\* One outcome of that race: the Go runtime detects it and ends the
\* process ("fatal error: concurrent map read and map write").  The other
\* outcomes are the two orders of the write and the read.
FatalError ==
    /\ ConcurrentMapAccess
    /\ pc' = "fatal"
    /\ adapter' = [adapter EXCEPT !.pc = "fatal"]
    /\ UNCHANGED <<batch, token, tokens, retentiondays, logGroups, logStreams,
                   nextTok, calls, outcome, tokens0, lastResp, appCached, batcher>>

\* --------------------------------------------------------------- batcher
\* The batcher's messages for destination d, and the others.
Of(d) == LET Test(x) == <<x.Group, x.Stream>> = d IN SelectSeq(batcher, Test)
NotOf(d) == LET Test(x) == <<x.Group, x.Stream>> # d IN SelectSeq(batcher, Test)

\* The batcher's open buffer for destination d closed into a batch: the
\* messages for d in arrival order, at most MaxMsgs of them.
Flushed(d) ==
    LET all == Of(d)
    IN  [Msgs |-> SubSeq(all, 1, IF Len(all) < MaxMsgs THEN Len(all) ELSE MaxMsgs)]

\* What the batcher still holds after that flush.
Kept(d) ==
    LET all == Of(d)
    IN  NotOf(d) \o SubSeq(all, MaxMsgs + 1, Len(all))

\* The batcher flushes one destination's buffer and the uploader's loop
\* head receives the batch from u.Input.
Flush ==
    /\ \E i \in DOMAIN batcher :
        LET d == <<batcher[i].Group, batcher[i].Stream>>
        IN  /\ StartWith(Flushed(d))
            /\ batcher' = Kept(d)
    /\ UNCHANGED adapter

\* ------------------------------------------------- reading the history
Last(q) == q[Len(q)]
Count(op) == Cardinality({ i \in DOMAIN calls : calls[i].op = op })
Indices(op) == { i \in DOMAIN calls : calls[i].op = op }
Ops == [i \in DOMAIN calls |-> calls[i].op]
InAttempt == pc \notin {"recv", "continue"}
Ended(how) == pc = "continue" /\ outcome = how

Next ==
    \/ Start
    \/ groupExists
    \/ createGroup
    \/ createGroupRetentionPolicy
    \/ getSequenceToken
    \/ createStream
    \/ PutLogEvents
    \/ Continue

Spec == Init /\ [][Next]_vars

\* The uploader goroutine keeps running and every remote call returns.
FairSpec == Spec /\ WF_vars(Next)

\* The same uploader against a service on which other clients delete
\* streams.
NextAnyService ==
    \/ Next
    \/ DeleteLogStream

FairSpecAnyService == Init /\ [][NextAnyService]_vars /\ WF_vars(Next)

\* The whole pipeline from a fresh start: nothing cached on either side,
\* no retention entries, an empty service.
InitPipeline ==
    /\ pc = "recv"
    /\ batch = EmptyBatch
    /\ token = Nil
    /\ tokens = EmptyMap
    /\ retentiondays = EmptyMap
    /\ logGroups = {}
    /\ logStreams = EmptyMap
    /\ nextTok = 1
    /\ calls = <<>>
    /\ outcome = "none"
    /\ tokens0 = EmptyMap
    /\ lastResp = EmptyMap
    /\ appCached = EmptyMap
    /\ adapter = IdleAdapter
    /\ batcher = <<>>

NextPipeline ==
    \/ Stream
    \/ InspectContainer
    \/ StoreRetentionDays
    \/ Send
    \/ Flush
    \/ groupExists
    \/ createGroup
    \/ createGroupRetentionPolicy
    \/ getSequenceToken
    \/ createStream
    \/ PutLogEvents
    \/ Continue
    \/ FatalError

SpecPipeline == InitPipeline /\ [][NextPipeline]_vars

\* ================================================================ claims

\* C1: every cursor held in the cache for a destination is the next-cursor
\* returned by the most recent successful PutLogEvents for that destination
\* (so a destination that saw no successful append has no cached cursor,
\* and a cursor that only DescribeLogStreams returned is never cached).
C1_CachedIsLastAppend ==
    \A c \in DOMAIN tokens :
        /\ Dest(c) \in DOMAIN lastResp
        /\ tokens[c] = lastResp[Dest(c)]

\* C2: once a successful append for a destination cached cursor C, the
\* next batch for that destination, whichever container it comes from,
\* goes straight to PutLogEvents with cursor C and makes no Describe or
\* Create call.
C2_RoundTripByDestination ==
    (InAttempt /\ batchDest \in DOMAIN appCached) =>
        /\ pc = "PutLogEvents"
        /\ calls = <<>>
        /\ token = appCached[batchDest]

C4_WitnessAbsent ==
    /\ Ended("ok")
    /\ Last(calls).resp = Nil
    /\ msg.Container \in DOMAIN tokens

\* C5: in an attempt whose group does not exist (the first
\* DescribeLogGroups does not list it), exactly one CreateLogGroup is
\* issued, followed by exactly one PutRetentionPolicy iff retention days
\* are configured for the group, both before the first DescribeLogStreams;
\* when the group exists neither call is issued.
C5_OneCreateGroup ==
    (calls # <<>> /\ calls[1].op = "DescribeLogGroups" /\ calls[1].ok) =>
        IF msg.Group \in calls[1].resp
          THEN Count("CreateLogGroup") = 0 /\ Count("PutRetentionPolicy") = 0
          ELSE /\ Count("CreateLogGroup") <= 1
               /\ Count("PutRetentionPolicy") <= 1
               /\ Count("DescribeLogStreams") >= 1 =>
                     /\ calls[2].op = "CreateLogGroup"
                     /\ Count("CreateLogGroup") = 1
                     /\ IF msg.Group \in DOMAIN retentiondays
                          THEN calls[3].op = "PutRetentionPolicy" /\ Count("PutRetentionPolicy") = 1
                          ELSE Count("PutRetentionPolicy") = 0
                     /\ \A i \in Indices("DescribeLogStreams") :
                           \A j \in Indices("CreateLogGroup") \cup Indices("PutRetentionPolicy") : j < i

\* C6: one attempt issues at most one CreateLogStream and at most two
\* DescribeLogStreams; when the query after the creation again returns
\* zero matches the attempt fails there, without PutLogEvents.
C6_BoundedStreamCreation ==
    /\ Count("CreateLogStream") <= 1
    /\ Count("DescribeLogStreams") <= 2
    /\ \A i \in Indices("DescribeLogStreams") :
          (calls[i].ok /\ calls[i].resp = {} /\ \E j \in Indices("CreateLogStream") : j < i) =>
              /\ i = Len(calls)
              /\ Ended("fail")

\* C7: a failed PutRetentionPolicy does not block the delivery: the
\* attempt goes on to DescribeLogStreams.
C7_RetentionFailureNotBlocking ==
    (calls # <<>> /\ Last(calls).op = "PutRetentionPolicy" /\ ~Last(calls).ok) =>
        pc = "DescribeLogStreams"

\* The call sequence section 8 of the specification expects for C8.
C8_Expected ==
    <<"DescribeLogGroups", "CreateLogGroup">>
      \o (IF app \in DOMAIN retentiondays THEN <<"PutRetentionPolicy">> ELSE <<>>)
      \o <<"DescribeLogStreams", "CreateLogStream", "DescribeLogStreams", "PutLogEvents">>

\* The case of C8: a delivered batch of 3 messages for (app, web-1) with
\* nothing cached, no group on the service at the start, and a service
\* that shows each creation in the next Describe answer.
C8_Case ==
    /\ Ended("ok")
    /\ Len(batch.Msgs) = 3
    /\ batchDest = <<app, web1>>
    /\ msg.Container \notin DOMAIN tokens0
    /\ calls[1].op = "DescribeLogGroups" /\ calls[1].resp = {}
    /\ \A i \in DOMAIN calls \ {1} :
          /\ calls[i].op = "DescribeLogGroups" => app \in calls[i].resp
          /\ (calls[i].op = "DescribeLogStreams" /\ \E j \in Indices("CreateLogStream") : j < i)
                => calls[i].resp # {}

\* C8: a batch of 3 messages for (app, web-1), nothing cached, no group
\* on the service, every creation visible at once and every call
\* succeeding: the calls are exactly DescribeLogGroups, CreateLogGroup,
\* [PutRetentionPolicy], DescribeLogStreams, CreateLogStream,
\* DescribeLogStreams, PutLogEvents (3 events in order, nil token), and
\* the returned next-cursor is cached.
C8_EndToEndSequence ==
    C8_Case =>
        /\ Ops = C8_Expected
        /\ Last(calls).arg.SequenceToken = Nil
        /\ Last(calls).arg.LogEvents = LogEvents(batch)
        /\ Last(calls).resp # Nil => tokens[msg.Container] = Last(calls).resp

\* C9: when a DescribeLogStreams answer holds two or more streams the
\* attempt ends there in failure: no CreateLogStream and no PutLogEvents
\* follows, the batch is dropped and the cache is not touched.
C9_AmbiguityFails ==
    \A i \in Indices("DescribeLogStreams") :
        (calls[i].ok /\ Cardinality(calls[i].resp) >= 2) =>
            /\ i = Len(calls)
            /\ Ended("fail")
            /\ Count("PutLogEvents") = 0
            /\ tokens = tokens0

C9_Witness ==
    /\ Ended("fail")
    /\ Last(calls).op = "DescribeLogStreams"
    /\ Last(calls).ok
    /\ Cardinality(Last(calls).resp) = 2

\* C10: after every answered DescribeLogGroups the group is taken as
\* existing iff the answer holds its exact name: then the next call is
\* DescribeLogStreams, otherwise (an empty answer, or only longer names
\* with the group's name as prefix) it is CreateLogGroup for that group.
C10_ExactGroupMatch ==
    \A i \in Indices("DescribeLogGroups") :
        calls[i].ok =>
            LET want == IF calls[i].group \in calls[i].resp
                          THEN "DescribeLogStreams" ELSE "CreateLogGroup"
            IN  IF i = Len(calls)
                  THEN pc = (IF want = "CreateLogGroup" THEN "createGroup" ELSE want)
                  ELSE calls[i + 1].op = want /\ calls[i + 1].group = calls[i].group

\* C10 witness: only a longer name was returned and the group is about
\* to be created.
C10_Witness ==
    /\ pc = "createGroup"
    /\ Last(calls).op = "DescribeLogGroups"
    /\ Last(calls).resp = {appx}
    /\ msg.Group = app

\* A batch has just been taken from u.Input.
JustTaken == pc # "recv" /\ calls = <<>>

\* C11: a failed remote call, an ambiguous answer or any other error of
\* the delivery path ends the attempt with the batch dropped; the loop
\* can always take a step; and after a failed batch the next batch is
\* eventually taken and gets its own attempt.
C11_ErrorsHandledLocally ==
    /\ []((calls # <<>> /\ ~Last(calls).ok) => Ended("fail"))
    /\ [](ENABLED Next)
    /\ Ended("fail") ~> JustTaken

\* C11 witness: a batch was dropped because a remote call failed.
C11_Witness ==
    /\ Ended("fail")
    /\ ~Last(calls).ok
    /\ Last(calls).op = "CreateLogStream"

\* C16: every delivery attempt ends (with the batch sent or dropped),
\* whatever the service does, provided each remote call returns.
C16_AttemptTerminates == InAttempt ~> ~InAttempt

\* C13: the event list of every PutLogEvents call has one event per
\* message of the batch being delivered, in the batch's order, with the
\* message's text and its arrival time in whole milliseconds; the call is
\* made for the batch taken last and there is at most one per batch, so
\* the appends of a destination follow the order the batches were taken.
C13_EventsInBatchOrder ==
    /\ Count("PutLogEvents") <= 1
    /\ \A i \in Indices("PutLogEvents") :
          LET ev == calls[i].arg.LogEvents IN
          /\ calls[i].group = msg.Group /\ calls[i].stream = msg.Stream
          /\ Len(ev) = Len(batch.Msgs)
          /\ \A k \in DOMAIN ev :
                /\ ev[k].Message = batch.Msgs[k].Message
                /\ ev[k].Timestamp * 1000000 <= batch.Msgs[k].Time
                /\ batch.Msgs[k].Time < (ev[k].Timestamp + 1) * 1000000

\* C13 witness: a batch of three messages from two containers was sent.
C13_Witness ==
    /\ Ended("ok")
    /\ Len(batch.Msgs) = 3
    /\ batch.Msgs[1].Container # batch.Msgs[2].Container

\* C17: the cursor submitted right after a resolution is the recorded
\* cursor of the stream named exactly like the batch's stream, and that
\* stream exists on the service when PutLogEvents is issued.
C17_CursorOfExactStream ==
    (pc = "PutLogEvents" /\ calls # <<>>) =>
        /\ batchDest \in DOMAIN logStreams
        /\ token = logStreams[batchDest]

\* C19: a batch causes at most one PutLogEvents call; a failed
\* PutLogEvents leaves the cache as it is; a batch whose key is cached is
\* submitted with the cached cursor without any Describe call; and a
\* cached entry changes only by a successful PutLogEvents of a batch with
\* that key.
C19_RejectedAppendKeepsCache ==
    /\ [](Count("PutLogEvents") <= 1)
    /\ [][(pc = "PutLogEvents" /\ outcome' = "fail") => tokens' = tokens]_vars
    /\ [][(pc = "recv" /\ Len(batch'.Msgs) > 0 /\ batch'.Msgs[1].Container \in DOMAIN tokens)
            => (pc' = "PutLogEvents" /\ token' = tokens[batch'.Msgs[1].Container])]_vars
    /\ [][\A c \in DOMAIN tokens :
            (c \notin DOMAIN tokens' \/ tokens'[c] # tokens[c])
              => (pc = "PutLogEvents" /\ outcome' = "ok" /\ msg.Container = c)]_vars

\* C19 witness: a cached cursor that the service no longer expects was
\* submitted without resolution, rejected, and is still cached.
C19_Witness ==
    /\ Ended("fail")
    /\ Ops = <<"PutLogEvents">>
    /\ batchDest \in DOMAIN logStreams
    /\ logStreams[batchDest] # token
    /\ tokens[msg.Container] = token

\* C12: the uploader takes a batch only at its loop head, after the
\* attempt for the batch before has ended; one attempt makes at most one
\* PutLogEvents call; and u.tokens is changed only by the uploader's own
\* steps, never by a step of the adapter or the batcher.
C12_SingleFlight ==
    /\ [](Count("PutLogEvents") <= 1)
    /\ [][batch' # batch =>
            \/ pc = "recv" /\ calls = <<>>
            \/ pc = "continue" /\ batch' = EmptyBatch]_vars
    /\ [][(pc # "recv" /\ pc' = "recv") => pc = "continue"]_vars
    /\ [][tokens' # tokens =>
            /\ pc \in {"DescribeLogStreams", "PutLogEvents"}
            /\ adapter' = adapter
            /\ batcher' = batcher]_vars

\* C12 witness: an append has succeeded while a later message was waiting
\* in the batcher.
C12_Witness ==
    /\ Ended("ok")
    /\ batcher # <<>>
    /\ adapter.lines = 2

\* Container c has been resolved: both names are cached and non-empty.
Resolved(c) ==
    /\ c \in DOMAIN adapter.groupnames
    /\ c \in DOMAIN adapter.streamnames
    /\ adapter.groupnames[c] # <<>>
    /\ adapter.streamnames[c] # <<>>

\* C14 as stated: no container is inspected (and rendered) more than
\* once, whatever the messages.
C14_ResolvedAtMostOnce ==
    \A c \in Containers : adapter.inspections[c] <= 1

\* C14, amended: once a container has been resolved with a non-empty
\* group and stream name, it is never inspected or rendered again, its
\* cached names never change, and every later message of it goes straight
\* to the batcher tagged with the cached names.
C14_ResolvedOnceCached ==
    /\ []((adapter.pc = "send" /\ Resolved(adapter.m.Container)) =>
            /\ adapter.groupName = adapter.groupnames[adapter.m.Container]
            /\ adapter.streamName = adapter.streamnames[adapter.m.Container])
    /\ [][\A c \in Containers : Resolved(c) =>
            /\ adapter'.inspections[c] = adapter.inspections[c]
            /\ adapter'.groupnames[c] = adapter.groupnames[c]
            /\ adapter'.streamnames[c] = adapter.streamnames[c]
            /\ (adapter.pc = "recv" /\ adapter'.m.Container = c) => adapter'.pc = "send"
            /\ (adapter.pc = "send" /\ adapter.m.Container = c /\ Len(batcher') > Len(batcher)) =>
                   /\ Last(batcher').Group = adapter.groupnames[c]
                   /\ Last(batcher').Stream = adapter.streamnames[c]]_vars

\* C14 witness: the second message of a container whose first message was
\* resolved and sent is about to be sent, without a second inspection.
C14_Witness ==
    /\ adapter.pc = "send"
    /\ adapter.lines = 2
    /\ adapter.inspections[adapter.m.Container] = 1
    /\ batcher # <<>>
    /\ batcher[1].Container = adapter.m.Container
    /\ batcher[1].Group = adapter.groupName
    /\ batcher[1].Stream = adapter.streamName

\* A rendered retention value that is a day count: an integer of at least
\* one day.
IsDayCount(s) == ~ParseInt(s).err /\ ParseInt(s).v >= 1

\* C15: a retention value that is not a valid day count leaves no entry
\* in retentiondays and causes no PutRetentionPolicy call, and the message
\* that triggered the resolution is still handed on with the resolved
\* names.
C15_InvalidRetentionOnlyRetention ==
    /\ adapter.pc = "retentiondays" => IsDayCount(adapter.retentionDays)
    /\ \A g \in DOMAIN retentiondays : retentiondays[g] >= 1
    /\ \A i \in Indices("PutRetentionPolicy") : calls[i].arg >= 1
    /\ (adapter.retentionDays # <<>> /\ ~IsDayCount(adapter.retentionDays)) =>
          /\ adapter.pc = "send"
          /\ adapter.groupName = adapter.groupnames[adapter.m.Container]
          /\ adapter.streamName = adapter.streamnames[adapter.m.Container]

\* C18: the adapter is never about to write the map retentiondays while
\* the uploader is about to read it.
C18_NoConcurrentRetentionAccess == ~ConcurrentMapAccess
====
